---- MODULE Spec2Model ----
(***************************************************************************)
(* Invasion percolation on a pore network, modelled from                   *)
(* OpenPNM/Algorithms/__InvasionPercolationBasic__.py.                     *)
(*                                                                         *)
(* Pores (nodes) and throats (edges) carry the 0-based ids of the code.    *)
(* Arrays are functions over 0..n-1; the queue is a list (a sequence).     *)
(* Entry thresholds are opaque ordering keys: integers standing for the    *)
(* reals of phase[throat_prop].                                            *)
(***************************************************************************)
EXTENDS Integers, Sequences, FiniteSets, TLC

VARIABLES
    Np,          \* net.Np: number of pores
    Nt,          \* net.Nt: number of throats
    conns,       \* net['throat.conns']: throat id -> <<pore, pore>>
    t_entry,     \* phase[throat_prop]: throat id -> entry threshold
    argsort,     \* what sp.argsort yields for t_entry on this build
    pc,          \* position of run: "idle", "loop", "done", "raised"
    error,       \* the exception the last run call raised, "" for none
    runs,        \* number of run calls made on this engine
    inlets,      \* the inlets argument of the current run
    queue,       \* run's local: sorted list of throat ranks
    t_sorted,    \* run's local: rank -> throat id
    t_order,     \* run's local: throat id -> rank
    t_inv,       \* run's local: throat id -> invasion sequence
    t_seq,       \* run's local: invasion sequence -> throat id
    p_inv,       \* run's local: pore id -> invasion sequence
    p_seq,       \* run's local: pore invasion sequence -> pore id
    tcount,      \* run's local
    pcount,      \* run's local
    self_phase,  \* self._phase
    self_t_inv,  \* self['throat.invasion_sequence']
    self_p_inv,  \* self['pore.invasion_sequence']
    phase_t_inv, \* phase['throat.invasion_sequence']
    phase_p_inv, \* phase['pore.invasion_sequence']
    inserted,    \* history: throat id -> insort calls made with its rank
    rr,          \* history: the last return_results call and its outcome
    prev         \* history: inputs and results of the previous completed run

vars == <<Np, Nt, conns, t_entry, argsort, pc, error, runs, inlets, queue,
          t_sorted, t_order, t_inv, t_seq, p_inv, p_seq, tcount, pcount,
          self_phase, self_t_inv, self_p_inv, phase_t_inv, phase_p_inv,
          inserted, rr, prev>>

net == <<Np, Nt, conns, t_entry, argsort>>
locals == <<queue, t_sorted, t_order, t_inv, t_seq, p_inv, p_seq, tcount, pcount,
            inserted>>
phase_results == <<phase_t_inv, phase_p_inv>>

(***************************************************************************)
(* Bounds of the model.                                                    *)
(***************************************************************************)
MaxPores == 3
MaxThroats == 3
MaxRuns == 2

None == "none"

\* An entry of the engine's dictionary: absent, or holding an array
Absent == <<>>
Stored(a) == <<a>>

\* A Python list as a 0-based array
ZeroBased(s) == [i \in 0..(Len(s) - 1) |-> s[i + 1]]

Pores == 0..(Np - 1)
Throats == 0..(Nt - 1)

Min(S) == CHOOSE x \in S : \A y \in S : x <= y

(***************************************************************************)
(* numpy helpers                                                           *)
(***************************************************************************)
\* -sp.ones_like(arange(n))
MinusOnes(n) == [i \in 0..(n - 1) |-> -1]

\* Mutant of ArgsortOutcomes: the sort descends
ArgsortDescending(te) ==
    LET D == DOMAIN te IN
    {p \in [D -> D] :
        /\ \A i, j \in D : i # j => p[i] # p[j]
        /\ \A i, j \in D : i < j => te[p[i]] >= te[p[j]]}

\* The permutations sp.argsort may return for thresholds te: ascending by
\* threshold.  The default kind is an unstable sort, so the order of equal
\* thresholds is whatever the build yields.
ArgsortOutcomes(te) ==
    LET D == DOMAIN te IN
    {p \in [D -> D] :
        /\ \A i, j \in D : i # j => p[i] # p[j]
        /\ \A i, j \in D : i < j => te[p[i]] <= te[p[j]]}

\* Mutant of InversePermutation: the sorted order itself is taken as rank
SamePermutation(ts) == ts

\* t_order = zeros_like(t_sorted); t_order[t_sorted] = arange(0, Nt)
InversePermutation(ts) ==
    [e \in DOMAIN ts |-> CHOOSE r \in DOMAIN ts : ts[r] = e]

\* Mutant of ThroatAtRank: the rank is taken for the throat id
RankAsThroat(ts, t) == t

\* t_sorted[t]
ThroatAtRank(ts, t) == ts[t]

(***************************************************************************)
(* bisect.insort (insort_right): binary search, then list.insert           *)
(***************************************************************************)
RECURSIVE BisectRight(_, _, _, _)
BisectRight(a, x, lo, hi) ==
    IF lo < hi
    THEN LET mid == (lo + hi) \div 2 IN
         \* a is 1-based here: a[mid + 1] is Python's a[mid]
         IF x < a[mid + 1] THEN BisectRight(a, x, lo, mid)
                           ELSE BisectRight(a, x, mid + 1, hi)
    ELSE lo

\* Mutant of Insort: the rank is put at the head of the queue
InsortAtHead(a, x) == <<x>> \o a

\* Mutant of Insort: the rank is appended, the list is not kept sorted
InsortAppended(a, x) == Append(a, x)

Insort(a, x) ==
    LET k == BisectRight(a, x, 0, Len(a)) IN
    SubSeq(a, 1, k) \o <<x>> \o SubSeq(a, k + 1, Len(a))

\* [bisect.insort(queue, T) for T in xs]
RECURSIVE InsortAll(_, _)
InsortAll(a, xs) ==
    IF xs = <<>> THEN a ELSE InsortAll(Insort(a, Head(xs)), Tail(xs))

(***************************************************************************)
(* Network queries                                                         *)
(***************************************************************************)
\* A finite set of integers as an ascending list (sp.unique)
RECURSIVE Ascending(_)
Ascending(S) ==
    IF S = {} THEN <<>> ELSE <<Min(S)>> \o Ascending(S \ {Min(S)})

\* net.find_neighbor_throats(pores=P): the throats with an endpoint in P,
\* each once, ascending
find_neighbor_throats(P) ==
    Ascending({e \in Throats : conns[e][1] \in P \/ conns[e][2] \in P})

\* a[idx] for a list of indices
Take(a, idx) == [i \in 1..Len(idx) |-> a[idx[i]]]

\* Mutant of UninvadedPores: the pores already invaded are not removed
AllEndPores(Ps, pinv) == Ps

\* Ps[p_inv[Ps] < 0]
UninvadedPores(Ps, pinv) == SelectSeq(Ps, LAMBDA n : pinv[n] < 0)

\* Mutant of UninvadedThroats: invaded throats are queued again
AllNeighborThroats(Ts, tinv) == Ts

\* Ts[t_inv[Ts] < 0]
UninvadedThroats(Ts, tinv) == SelectSeq(Ts, LAMBDA e : tinv[e] < 0)

\* Mutant of DiscardDuplicates: the duplicates stay in the queue
KeepDuplicates(q, t) == q

\* while len(queue) > 0 and queue[0] == t: t = queue.pop(0)
RECURSIVE DiscardDuplicates(_, _)
DiscardDuplicates(q, t) ==
    IF Len(q) > 0 /\ q[1] = t THEN DiscardDuplicates(Tail(q), t) ELSE q

\* The insort calls counted so far, plus one for every throat listed in Ts
CountInserted(ins, Ts) ==
    [e \in DOMAIN ins |-> ins[e] + Cardinality({k \in 1..Len(Ts) : Ts[k] = e})]

\* a[idx] = v for a list of indices
Assign(a, idx, v) ==
    [i \in DOMAIN a |-> IF \E k \in 1..Len(idx) : idx[k] = i THEN v ELSE a[i]]

\* numpy indexing of an array of length n: -n..-1 count from the end, any
\* other id outside 0..n-1 raises IndexError
IndexInRange(i, n) == -n <= i /\ i < n
ArrayIndex(i, n) == IF i < 0 THEN i + n ELSE i

\* Mutant of SeedPores: the inlets are not marked as invaded
SeedsUnmarked(pinv, S) == pinv

\* p_inv[inlets] = 0
SeedPores(pinv, S) ==
    LET n == Cardinality(DOMAIN pinv) IN
    [k \in DOMAIN pinv |-> IF \E i \in S : ArrayIndex(i, n) = k THEN 0 ELSE pinv[k]]

\* t_order[t_sorted] = sp.arange(0, nt): the value array must have the length
\* of t_sorted or length 1 (broadcast), else ValueError
ScatterFits(ts, nt) == Cardinality(DOMAIN ts) = nt \/ nt = 1

RankOrder(ts, nt) ==
    IF Cardinality(DOMAIN ts) = nt
    THEN InversePermutation(ts)
    ELSE [e \in DOMAIN ts |-> 0]

(***************************************************************************)
(* Initial states: a network and a phase, the engine constructed           *)
(***************************************************************************)
\* Node labels are taken up to renaming: each throat is written low-high and
\* pores appear in the throat list in ascending order of first appearance
\* (pores without throats carry the highest ids).
Canonical(c, m) ==
    \A e \in 0..(m - 1) :
        LET seen == UNION {{c[x][1], c[x][2]} : x \in 0..(e - 1)} IN
        /\ c[e][1] <= c[e][2]
        /\ c[e][1] <= Cardinality(seen)
        /\ c[e][2] <= Cardinality(seen \cup {c[e][1]})

\* Thresholds are opaque ordering keys: every ordering of the throats with
\* ties is represented once, by the levels 1..k.
DenseLevels(te) ==
    \A e \in DOMAIN te : te[e] = 1 \/ \E x \in DOMAIN te : te[x] = te[e] - 1

\* No return_results call since the last run call
NoCall == [called |-> FALSE, pores |-> {}, throats |-> {}, error |-> ""]

EngineInit ==
    /\ pc = "idle"
    /\ error = ""
    /\ runs = 0
    /\ inlets = {}
    /\ queue = <<>>
    /\ t_sorted = <<>>
    /\ t_order = <<>>
    /\ t_inv = <<>>
    /\ t_seq = <<>>
    /\ p_inv = <<>>
    /\ p_seq = <<>>
    /\ tcount = 0
    /\ pcount = 0
    /\ inserted = <<>>
    /\ self_phase = None
    /\ self_t_inv = Absent
    /\ self_p_inv = Absent
    /\ phase_t_inv = Absent
    /\ phase_p_inv = Absent
    /\ rr = NoCall
    /\ prev = [set |-> FALSE, inlets |-> {}, t_inv |-> Absent, p_inv |-> Absent]

Init ==
    /\ Np \in 1..MaxPores
    /\ Nt \in 0..MaxThroats
    /\ conns \in [0..(Nt - 1) -> (0..(Np - 1)) \X (0..(Np - 1))]
    /\ Canonical(conns, Nt)
    /\ t_entry \in [0..(Nt - 1) -> 1..Nt]
    /\ DenseLevels(t_entry)
    /\ argsort \in ArgsortOutcomes(t_entry)
    /\ EngineInit

(***************************************************************************)
(* run, lines 56-73: set-up                                                *)
(***************************************************************************)
InletChoices == SUBSET Pores

\* Mutant of NewThroatInv: the array of the previous run is used again
StaleThroatInv ==
    IF self_t_inv = Absent THEN MinusOnes(Nt) ELSE self_t_inv[1]

\* line 64: t_inv = -sp.ones_like(net.Ts)
NewThroatInv == MinusOnes(Nt)

\* Mutant of NewPoreInv: the array of the previous run is used again
StalePoreInv ==
    IF self_p_inv = Absent THEN MinusOnes(Np) ELSE self_p_inv[1]

\* line 66: p_inv = -sp.ones_like(net.Ps)
NewPoreInv == MinusOnes(Np)

\* Mutant of NextPoreCount: the counter is incremented once per end pore
PoreCountPerEndPore(c) == c + 2

\* Mutant of NextPoreCount: the counter is incremented after the assignment
SamePoreCount(c) == c

\* Mutant of QueueNotEmpty: off by one
QueueLongerThanOne(q) == Len(q) > 1

\* line 74: while len(queue) > 0
QueueNotEmpty(q) == Len(q) > 0

\* line 84: pcount += 1, the number the newly invaded pores get
NextPoreCount(c) == c + 1

\* The exception lines 56-71 raise for inlets in, "" when they raise none
SetupError(in) ==
    IF ~ScatterFits(argsort, Nt) THEN "ValueError"
    ELSE IF \E i \in in : ~IndexInRange(i, Np) THEN "IndexError"
    ELSE IF LET Ts == find_neighbor_throats(in) IN
            \E k \in 1..Len(Ts) : Ts[k] \notin DOMAIN argsort
         THEN "IndexError"
    ELSE ""

\* The locals of a run call are gone once it has raised
LocalsDropped ==
    /\ queue' = <<>>
    /\ t_sorted' = <<>>
    /\ t_order' = <<>>
    /\ t_inv' = <<>>
    /\ t_seq' = <<>>
    /\ p_inv' = <<>>
    /\ p_seq' = <<>>
    /\ tcount' = 0
    /\ pcount' = 0
    /\ inserted' = <<>>

RunSetup(in) ==
    /\ pc \in {"idle", "done", "raised"}
    /\ runs < MaxRuns
    /\ inlets' = in
    /\ self_phase' = "phase"
    /\ error' = SetupError(in)
    /\ IF SetupError(in) = ""
       THEN LET Ts == find_neighbor_throats(in)
                order == RankOrder(argsort, Nt)
            IN
            /\ t_sorted' = argsort
            /\ t_order' = order
            /\ t_inv' = NewThroatInv
            /\ t_seq' = MinusOnes(Nt)
            /\ p_inv' = SeedPores(NewPoreInv, in)
            /\ p_seq' = MinusOnes(Np)
            /\ queue' = InsortAll(<<>>, Take(order, Ts))
            /\ inserted' = CountInserted([e \in Throats |-> 0], Ts)
            /\ tcount' = 0
            /\ pcount' = 0
            /\ pc' = "loop"
       ELSE /\ LocalsDropped
            /\ pc' = "raised"
    /\ runs' = runs + 1
    /\ rr' = NoCall
    /\ prev' = IF pc = "done"
               THEN [set |-> TRUE, inlets |-> inlets,
                     t_inv |-> self_t_inv, p_inv |-> self_p_inv]
               ELSE prev
    /\ UNCHANGED <<net, self_t_inv, self_p_inv, phase_results>>

\* run called with inlets that are pore ids
RunStart == \E in \in InletChoices : RunSetup(in)

(***************************************************************************)
(* run, lines 74-90: one iteration of the main loop                        *)
(***************************************************************************)
LoopIter ==
    /\ pc = "loop"
    /\ QueueNotEmpty(queue)
    /\ LET t == Head(queue)
           t_next == ThroatAtRank(t_sorted, t)
           t_inv1 == [t_inv EXCEPT ![t_next] = tcount]
           queue1 == DiscardDuplicates(Tail(queue), t)
           Ps == UninvadedPores(conns[t_next], p_inv)
       IN
       IF t_next \in DOMAIN t_inv
       THEN /\ t_inv' = t_inv1
            /\ t_seq' = [t_seq EXCEPT ![tcount] = t_next]
            /\ IF Len(Ps) > 0
               THEN LET Ts == UninvadedThroats(find_neighbor_throats(
                                     {Ps[i] : i \in 1..Len(Ps)}), t_inv1)
                    IN
                    /\ pcount' = NextPoreCount(pcount)
                    /\ p_inv' = Assign(p_inv, Ps, NextPoreCount(pcount))
                    /\ p_seq' = [p_seq EXCEPT ![NextPoreCount(pcount)] = Ps[1]]
                    /\ queue' = InsortAll(queue1, Take(t_order, Ts))
                    /\ inserted' = CountInserted(inserted, Ts)
               ELSE /\ queue' = queue1
                    /\ UNCHANGED <<pcount, p_inv, p_seq, inserted>>
            /\ tcount' = tcount + 1
            /\ UNCHANGED <<pc, error, t_sorted, t_order>>
       \* line 77: t_inv[t_next] with t_next >= net.Nt raises IndexError
       ELSE /\ LocalsDropped
            /\ pc' = "raised"
            /\ error' = "IndexError"
    /\ UNCHANGED <<net, runs, inlets, self_phase, self_t_inv, self_p_inv,
                   phase_results, rr, prev>>

\* Mutant of RunFinish: the results are also written into the phase
RunFinishIntoPhase ==
    /\ pc = "loop"
    /\ ~QueueNotEmpty(queue)
    /\ self_t_inv' = Stored(t_inv)
    /\ self_p_inv' = Stored(p_inv)
    /\ phase_t_inv' = Stored(t_inv)
    /\ phase_p_inv' = Stored(p_inv)
    /\ pc' = "done"
    /\ UNCHANGED <<net, error, runs, inlets, locals, self_phase, rr, prev>>

(***************************************************************************)
(* run, lines 74 and 91-92: the loop ends and the results are stored       *)
(***************************************************************************)
RunFinish ==
    /\ pc = "loop"
    /\ ~QueueNotEmpty(queue)
    /\ self_t_inv' = Stored(t_inv)
    /\ self_p_inv' = Stored(p_inv)
    /\ pc' = "done"
    /\ UNCHANGED <<net, error, runs, inlets, locals, self_phase,
                   phase_results, rr, prev>>

Next == RunStart \/ LoopIter \/ RunFinish

Spec == Init /\ [][Next]_vars

\* line 74: the loop body is entered exactly when the queue is not empty;
\* this is ENABLED <<LoopIter>>_vars, since an iteration always changes
\* tcount or pc
LoopEnabled == pc = "loop" /\ QueueNotEmpty(queue)

\* Weak fairness of the loop iteration, WF_vars(LoopIter), with the enabling
\* condition written out
LoopProceeds == []<>(~LoopEnabled) \/ []<><<LoopIter>>_vars

\* run is one uninterrupted call: once its loop is entered, the iterations
\* and the final stores are executed; a further call of run is never owed
RunProceeds == LoopProceeds /\ WF_vars(RunFinish)

SpecLive == Init /\ [][Next]_vars /\ RunProceeds

(***************************************************************************)
(* The ring scenario: pores 0..3, throats 0-1, 1-2, 2-3, 3-0 with          *)
(* thresholds 0.2, 0.5, 0.1, 0.4 (in tenths)                               *)
(***************************************************************************)
RingConns == ZeroBased(<< <<0, 1>>, <<1, 2>>, <<2, 3>>, <<3, 0>> >>)
RingThresholds == ZeroBased(<<2, 5, 1, 4>>)

InitRing ==
    /\ Np = 4
    /\ Nt = 4
    /\ conns = RingConns
    /\ t_entry = RingThresholds
    /\ argsort \in ArgsortOutcomes(t_entry)
    /\ EngineInit

SpecRing == InitRing /\ [][Next]_vars

(***************************************************************************)
(* Any call of the engine: run with inlets that need not be pore ids and a *)
(* threshold array that need not have one entry per throat, and            *)
(* return_results                                                          *)
(***************************************************************************)
InitCalls ==
    /\ Np \in 1..MaxPores
    /\ Nt \in 0..MaxThroats
    /\ conns \in [0..(Nt - 1) -> (0..(Np - 1)) \X (0..(Np - 1))]
    /\ Canonical(conns, Nt)
    /\ \E len \in 0..MaxThroats : t_entry \in [0..(len - 1) -> 1..len]
    /\ DenseLevels(t_entry)
    /\ argsort \in ArgsortOutcomes(t_entry)
    /\ EngineInit

\* Inlet ids from one below to one above the pore ids
AnyInlets == SUBSET (-1..Np)

\* The first run call of an engine, with any inlets
RunCall == pc = "idle" /\ \E in \in AnyInlets : RunSetup(in)

\* The subsets asked of return_results: none, the first id, the id after the
\* last one
SubsetChoices(n) == {{}, {0}, {n}}

\* lines 105-107: pores = sp.array(pores), all pores when none are given
RequestedPores(pores) == IF pores = {} THEN Pores ELSE pores

\* line 108: what is written into phase['throat.invasion_sequence']
\* mutation of DeliveredThroatSequence: the pore sequence is delivered twice
DeliveredPoreSequenceTwice == self_p_inv

DeliveredThroatSequence == self_t_inv

\* line 109: what is written into phase['pore.invasion_sequence']
DeliveredPoreSequence == self_p_inv

\* return_results, lines 105-109 (called at most once between run calls)
ReturnResults ==
    /\ pc \in {"idle", "done", "raised"}
    /\ ~rr.called
    /\ \E pores \in SubsetChoices(Np), throats \in SubsetChoices(Nt) :
        LET Ps == RequestedPores(pores) IN
        \* self[...] of an entry no run has stored raises KeyError
        IF self_t_inv = Absent \/ self_p_inv = Absent
        THEN /\ rr' = [called |-> TRUE, pores |-> pores, throats |-> throats,
                       error |-> "KeyError"]
             /\ UNCHANGED phase_results
        ELSE /\ rr' = [called |-> TRUE, pores |-> pores, throats |-> throats,
                       error |-> ""]
             /\ phase_t_inv' = DeliveredThroatSequence
             /\ phase_p_inv' = DeliveredPoreSequence
    /\ UNCHANGED <<net, pc, error, runs, inlets, locals, self_phase,
                   self_t_inv, self_p_inv, prev>>

NextCalls == RunCall \/ LoopIter \/ RunFinish \/ ReturnResults

SpecCalls == InitCalls /\ [][NextCalls]_vars

(***************************************************************************)
(* Runs on pore-id inlets, each followed or not by return_results          *)
(***************************************************************************)
NextResults == RunStart \/ LoopIter \/ RunFinish \/ ReturnResults

SpecResults == Init /\ [][NextResults]_vars

(***************************************************************************)
(* Vocabulary of the properties                                            *)
(***************************************************************************)
Running == pc \in {"loop", "done"}

\* The throats that are not yet invaded and touch an invaded pore
EligibleThroats ==
    {e \in Throats : /\ t_inv[e] < 0
                     /\ \E i \in 1..2 : p_inv[conns[e][i]] >= 0}

InvadedThroats == {e \in Throats : t_inv[e] >= 0}
InvadedPores == {n \in Pores : p_inv[n] >= 0}

\* A step of the main loop: one throat is given its sequence number
LoopStep == pc = "loop" /\ pc' = "loop" /\ tcount' = tcount + 1

\* The pores connected to the pores S through throats
RECURSIVE ConnectedPores(_)
ConnectedPores(S) ==
    LET T == S \cup {n \in Pores : \E e \in Throats :
                        \/ conns[e][1] \in S /\ conns[e][2] = n
                        \/ conns[e][2] \in S /\ conns[e][1] = n}
    IN IF T = S THEN S ELSE ConnectedPores(T)

ConnectedThroats(S) ==
    {e \in Throats : conns[e][1] \in ConnectedPores(S)
                     \/ conns[e][2] \in ConnectedPores(S)}

(***************************************************************************)
(* C1: greedy selection.  In every iteration of the main loop the throat   *)
(* that is invaded is the lowest-ranked one among the throats that are not *)
(* yet invaded and have an already invaded endpoint.                       *)
(***************************************************************************)
C1_GreedySelection ==
    [][LoopStep =>
        LET e == t_seq'[tcount] IN
        /\ e \in EligibleThroats
        /\ t_inv'[e] = tcount
        /\ \A x \in EligibleThroats : t_order[e] <= t_order[x]]_vars

\* an iteration has chosen among several eligible throats
C1_Witness ==
    /\ pc = "loop"
    /\ tcount >= 1
    /\ \E x \in EligibleThroats :
        /\ t_order[x] > t_order[t_seq[tcount - 1]]
        /\ \E i \in 1..2 : p_inv[conns[x][i]] = 0

(***************************************************************************)
(* C2: the ring scenario.  For the 4-pore ring with throats 0-1 (0.2),     *)
(* 1-2 (0.5), 2-3 (0.1), 3-0 (0.4) and inlets {0}, run ends with throat    *)
(* sequence [0,3,2,1] and pore sequence [0,1,3,2].                         *)
(***************************************************************************)
C2_RingScenario ==
    (/\ pc = "done"
     /\ conns = RingConns
     /\ t_entry = RingThresholds
     /\ inlets = {0})
    => /\ self_t_inv = Stored(ZeroBased(<<0, 3, 2, 1>>))
       /\ self_p_inv = Stored(ZeroBased(<<0, 1, 3, 2>>))

C2_Witness ==
    /\ pc = "done"
    /\ conns = RingConns
    /\ t_entry = RingThresholds
    /\ inlets = {0}
    /\ tcount = 4

(***************************************************************************)
(* C3: completeness.  When run terminates, every pore and throat connected *)
(* to the inlets has a sequence number >= 0 and every other pore and       *)
(* throat has -1.                                                          *)
(***************************************************************************)
C3_Completeness ==
    pc = "done" =>
        /\ self_p_inv = Stored(p_inv)
        /\ self_t_inv = Stored(t_inv)
        /\ \A n \in Pores :
            IF n \in ConnectedPores(inlets) THEN p_inv[n] >= 0 ELSE p_inv[n] = -1
        /\ \A e \in Throats :
            IF e \in ConnectedThroats(inlets) THEN t_inv[e] >= 0 ELSE t_inv[e] = -1

\* a finished run that invaded a pore beyond the inlets and left another out
C3_Witness ==
    /\ pc = "done"
    /\ \E n \in Pores : p_inv[n] >= 1
    /\ \E n \in Pores : p_inv[n] = -1
    /\ \E e \in Throats : t_inv[e] = -1

(***************************************************************************)
(* C4: frontier causality.  At the moment a throat is given its sequence   *)
(* number, one of its two end pores already has a sequence number >= 0.    *)
(***************************************************************************)
C4_FrontierCausality ==
    [][LoopStep =>
        \E i \in 1..2 : p_inv[conns[t_seq'[tcount]][i]] >= 0]_vars

\* a throat was invaded from a pore that is not an inlet
C4_Witness ==
    /\ pc = "loop"
    /\ tcount >= 2
    /\ \A i \in 1..2 : conns[t_seq[tcount - 1]][i] \notin inlets

(***************************************************************************)
(* C5 as stated: after run, any two invaded throats e1, e2 with            *)
(* t_inv[e1] < t_inv[e2] and distinct thresholds have                      *)
(* t_entry[e1] <= t_entry[e2].                                             *)
(***************************************************************************)
C5_MonotonicThresholds ==
    pc = "done" =>
        \A e1, e2 \in InvadedThroats :
            (t_inv[e1] < t_inv[e2] /\ t_entry[e1] # t_entry[e2])
                => t_entry[e1] <= t_entry[e2]

(***************************************************************************)
(* C5 amended: the order holds between throats that compete.  For any two  *)
(* throats e1, e2 with distinct thresholds where e1 is invaded while e2 is *)
(* not yet invaded and already has an invaded end pore,                    *)
(* t_entry[e1] <= t_entry[e2].                                             *)
(***************************************************************************)
C5_MonotonicAmongEligible ==
    [][LoopStep =>
        \A e2 \in EligibleThroats :
            t_entry[t_seq'[tcount]] # t_entry[e2]
                => t_entry[t_seq'[tcount]] <= t_entry[e2]]_vars

\* a throat was invaded while a throat of a higher threshold was eligible,
\* and a lower threshold was invaded after a higher one
C5_Witness ==
    /\ pc = "loop"
    /\ tcount >= 2
    /\ \E x \in EligibleThroats : t_entry[x] > t_entry[t_seq[tcount - 1]]
    /\ t_entry[t_seq[tcount - 1]] < t_entry[t_seq[tcount - 2]]

(***************************************************************************)
(* C6: seed invariants.  In every state of run after initialisation and in *)
(* the stored result, every inlet pore has sequence 0 and no other pore    *)
(* has sequence 0.                                                         *)
(***************************************************************************)
C6_SeedInvariants ==
    /\ Running => \A n \in Pores : (p_inv[n] = 0) <=> (n \in inlets)
    /\ pc = "done" => self_p_inv = Stored(p_inv)

\* a finished run with inlets, pores invaded later and a throat closing a cycle
C6_Witness ==
    /\ pc = "done"
    /\ inlets # {}
    /\ \E n \in Pores : p_inv[n] >= 1
    /\ tcount > pcount

(***************************************************************************)
(* C7: dense sequence counters.  When run terminates with k invaded        *)
(* throats, their sequence numbers are exactly 0..k-1, each used by one    *)
(* throat; the pore sequence numbers are exactly 0..j for some j.          *)
(***************************************************************************)
C7_DenseCounters ==
    pc = "done" =>
        LET k == Cardinality(InvadedThroats)
            tv == {t_inv[e] : e \in InvadedThroats}
            pv == {p_inv[n] : n \in InvadedPores}
        IN
        /\ self_t_inv = Stored(t_inv)
        /\ self_p_inv = Stored(p_inv)
        /\ tv = 0..(k - 1)
        /\ \A e1, e2 \in InvadedThroats : t_inv[e1] = t_inv[e2] => e1 = e2
        /\ pv = 0..(Cardinality(pv) - 1)
        /\ inlets # {} => 0 \in pv

\* a finished run with three invaded throats, one of which reached no pore
C7_Witness ==
    /\ pc = "done"
    /\ Cardinality(InvadedThroats) >= 3
    /\ Cardinality({p_inv[n] : n \in InvadedPores}) >= 3
    /\ tcount > pcount

(***************************************************************************)
(* C8: tie-break stability.  The rank is a stable ascending sort of the    *)
(* throat ids by threshold, so of two eligible throats with the same       *)
(* threshold the one with the lower id is invaded first.                   *)
(***************************************************************************)
C8_TieBreakStability ==
    pc = "loop" =>
        /\ \A e1, e2 \in Throats :
            (e1 < e2 /\ t_entry[e1] = t_entry[e2]) => t_order[e1] < t_order[e2]
        /\ Len(queue) > 0 =>
            \A x \in EligibleThroats :
                t_entry[x] = t_entry[t_sorted[Head(queue)]]
                    => t_sorted[Head(queue)] <= x

(***************************************************************************)
(* C9: determinism.  Two runs with the same network, the same thresholds   *)
(* and the same inlets store identical throat and pore sequences, ties     *)
(* among the thresholds included.                                          *)
(***************************************************************************)
C9_Determinism ==
    (pc = "done" /\ prev.set /\ prev.inlets = inlets)
        => /\ self_t_inv = prev.t_inv
           /\ self_p_inv = prev.p_inv

\* a second run on the same inlets, with tied thresholds, that invaded pores
C9_Witness ==
    /\ pc = "done"
    /\ prev.set
    /\ prev.inlets = inlets
    /\ \E e1, e2 \in InvadedThroats : e1 # e2 /\ t_entry[e1] = t_entry[e2]
    /\ pcount >= 2

(***************************************************************************)
(* C10: run called with an empty set of inlets reports a                   *)
(* ConfigurationError instead of completing and storing result arrays.     *)
(***************************************************************************)
C10_EmptyInletsRejected ==
    (runs >= 1 /\ inlets = {}) => pc # "done"

(***************************************************************************)
(* C11: run called with an inlet id outside [0, Np), negative or >= Np,    *)
(* is rejected with a ConfigurationError and marks no pore on behalf of    *)
(* that id.                                                                *)
(***************************************************************************)
C11_OutOfRangeInletsRejected ==
    (runs >= 1 /\ ~(inlets \subseteq Pores))
        => /\ pc = "raised"
           /\ error = "ConfigurationError"

(***************************************************************************)
(* C12: run called with a threshold array whose length differs from the    *)
(* number of throats is rejected with a ConfigurationError instead of      *)
(* ranking the throats from the mismatched array.                          *)
(***************************************************************************)
C12_ThresholdLengthRejected ==
    (runs >= 1 /\ Cardinality(DOMAIN t_entry) # Nt)
        => /\ pc = "raised"
           /\ error = "ConfigurationError"

(***************************************************************************)
(* C13: atomic failure.  When the run call of an engine that has not run   *)
(* before fails, the stored phase reference and the two stored sequences   *)
(* are what they were before the call: nothing is stored.                  *)
(***************************************************************************)
C13_AtomicFailure ==
    (runs = 1 /\ pc = "raised")
        => /\ self_phase = None
           /\ self_t_inv = Absent
           /\ self_p_inv = Absent

\* A return_results step: the call record goes from not called to called
ReturnStep == ~rr.called /\ rr'.called

\* The entries of array a at the ids in S
Restrict(a, S) == [i \in S \cap DOMAIN a |-> a[i]]

RequestedThroats(throats) == IF throats = {} THEN Throats ELSE throats

(***************************************************************************)
(* C14: return_results called with a non-empty subset of ids delivers to   *)
(* the phase the sequence values of the requested ids only; called with an *)
(* empty or omitted subset it delivers the full arrays.                    *)
(***************************************************************************)
C14_SubsetDelivery ==
    (rr.called /\ rr.error = "" /\ rr.pores \subseteq Pores /\ rr.throats \subseteq Throats)
        => /\ phase_p_inv = Stored(Restrict(self_p_inv[1], RequestedPores(rr.pores)))
           /\ phase_t_inv = Stored(Restrict(self_t_inv[1], RequestedThroats(rr.throats)))

C16_OutOfRangeSubsetFails ==
    (/\ rr.called
     /\ self_t_inv # Absent
     /\ ~(rr.pores \subseteq Pores /\ rr.throats \subseteq Throats))
        => rr.error = "IndexError"

\* A step of run: the call starts, the loop iterates, or the call ends
RunStep == runs' # runs \/ pc' # pc \/ tcount' # tcount

FreshSetup(in) ==
    [queue  |-> InsortAll(<<>>, Take(InversePermutation(argsort),
                                     find_neighbor_throats(in))),
     t_inv  |-> MinusOnes(Nt),
     p_inv  |-> SeedPores(MinusOnes(Np), in),
     tcount |-> 0,
     pcount |-> 0]

FreshStep(s) ==
    LET t == Head(s.queue)
        t_next == argsort[t]
        t_inv1 == [s.t_inv EXCEPT ![t_next] = s.tcount]
        queue1 == DiscardDuplicates(Tail(s.queue), t)
        Ps == UninvadedPores(conns[t_next], s.p_inv)
        Ts == UninvadedThroats(find_neighbor_throats(
                                   {Ps[i] : i \in 1..Len(Ps)}), t_inv1)
    IN  IF Len(Ps) > 0
        THEN [queue  |-> InsortAll(queue1, Take(InversePermutation(argsort), Ts)),
              t_inv  |-> t_inv1,
              p_inv  |-> Assign(s.p_inv, Ps, s.pcount + 1),
              tcount |-> s.tcount + 1,
              pcount |-> s.pcount + 1]
        ELSE [s EXCEPT !.queue = queue1, !.t_inv = t_inv1,
                       !.tcount = s.tcount + 1]

RECURSIVE FreshRun(_)
FreshRun(s) == IF Len(s.queue) > 0 THEN FreshRun(FreshStep(s)) ELSE s

(***************************************************************************)
(* C18: fresh state per run.  The sequences stored by the last completed   *)
(* run are the ones a newly created engine produces for that run's         *)
(* network, thresholds and inlets; nothing of an earlier run on the same   *)
(* engine leaks into them.                                                 *)
(***************************************************************************)
C18_FreshStatePerRun ==
    pc = "done" =>
        LET r == FreshRun(FreshSetup(inlets)) IN
        /\ self_t_inv = Stored(r.t_inv)
        /\ self_p_inv = Stored(r.p_inv)

\* a second run, on other inlets than the first one, has completed with other
\* results, after a first run that invaded throats and pores
C18_Witness ==
    /\ pc = "done"
    /\ prev.set
    /\ prev.inlets # inlets
    /\ prev.t_inv # self_t_inv
    /\ prev.p_inv # self_p_inv
    /\ \E e \in Throats : prev.t_inv[1][e] >= 1
    /\ pcount >= 1

\* The ranks held by the queue
QueuedRanks == {queue[i] : i \in 1..Len(queue)}

(***************************************************************************)
(* C19: frontier content.  At the start of every loop iteration the set of *)
(* ranks in the queue is exactly the set of ranks of the throats that are  *)
(* not yet invaded and have an invaded end pore; the queue never holds the *)
(* rank of an invaded throat.                                              *)
(***************************************************************************)
C19_FrontierContent ==
    pc = "loop" =>
        /\ QueuedRanks = {t_order[e] : e \in EligibleThroats}
        /\ \A e \in InvadedThroats : t_order[e] \notin QueuedRanks

\* after some invasions the queue holds the rank of a throat twice while
\* another throat, not invaded, has no invaded end pore yet
C19_Witness ==
    /\ pc = "loop"
    /\ tcount >= 1
    /\ pcount >= 1
    /\ Cardinality(QueuedRanks) >= 1
    /\ \E e \in Throats : t_inv[e] < 0 /\ e \notin EligibleThroats
    /\ \E i, j \in 1..Len(queue) : i # j /\ queue[i] = queue[j]

(***************************************************************************)
(* C20: duplicate suppression.  Every loop iteration gives a sequence      *)
(* number to a throat that had none, and leaves the numbers of the throats *)
(* already invaded as they are: a throat is numbered at most once, even    *)
(* when its rank was put in the queue more than once.                      *)
(***************************************************************************)
C20_DuplicateSuppression ==
    [][LoopStep =>
        \E e \in Throats : /\ t_inv[e] < 0
                           /\ t_inv' = [t_inv EXCEPT ![e] = tcount]]_vars

\* a run from one inlet over a triangle of three pores has ended: the throat
\* that closes the triangle was queued from both of its end pores
C20_Witness ==
    /\ pc = "done"
    /\ Np = 3
    /\ Nt = 3
    /\ Cardinality(inlets) = 1
    /\ \A e \in Throats : conns[e][1] # conns[e][2]
    /\ \A e1, e2 \in Throats : e1 # e2 => conns[e1] # conns[e2]
    /\ tcount = 3
    /\ pcount = 2
    /\ \A e \in Throats : t_inv[e] >= 0

\* The number of copies of rank r held by the queue
Copies(r) == Cardinality({i \in 1..Len(queue) : queue[i] = r})

(***************************************************************************)
(* C21: bounded duplication.  Over a whole run the rank of each throat is  *)
(* inserted into the queue at most twice, so at every moment any rank      *)
(* value occurs at most twice in the queue.                                *)
(***************************************************************************)
C21_BoundedDuplication ==
    Running =>
        /\ \A e \in Throats : inserted[e] <= 2
        /\ \A i \in 1..Len(queue) : Copies(queue[i]) <= 2

\* the rank of a throat was inserted twice and the queue holds both copies
C21_Witness ==
    /\ pc = "loop"
    /\ tcount >= 1
    /\ \E e \in Throats : inserted[e] = 2 /\ Copies(t_order[e]) = 2

(***************************************************************************)
(* C22: termination.  For every network and every set of inlets the main   *)
(* loop of run reaches an empty queue and stops, after exactly as many     *)
(* iterations as there are throats invaded, at most Nt.                    *)
(***************************************************************************)
C22_Termination ==
    /\ (pc = "loop") ~> (pc = "done" /\ queue = <<>>)
    /\ [](pc = "done" => /\ tcount = Cardinality(InvadedThroats)
                         /\ tcount <= Nt)

\* a run that invaded every throat of a network of three throats has ended
C22_Witness ==
    /\ pc = "done"
    /\ queue = <<>>
    /\ Nt = 3
    /\ tcount = 3
    /\ Cardinality(InvadedThroats) = 3

\* The throats with n as an end pore
IncidentThroats(n) == {e \in Throats : conns[e][1] = n \/ conns[e][2] = n}

\* The invaded pores that are not inlets
NonInletInvaded == {n \in Pores : n \notin inlets /\ p_inv[n] >= 0}

\* The throat whose invasion reached pore n: the first of n's throats to be
\* invaded (line 82 keeps n as long as n is not invaded)
ReachedBy(n) ==
    CHOOSE e \in IncidentThroats(n) \cap InvadedThroats :
        \A f \in IncidentThroats(n) \cap InvadedThroats : t_inv[e] <= t_inv[f]

(***************************************************************************)
(* C23: pore order follows throat order.  For two invaded pores n1, n2     *)
(* that are not inlets, the sequence number of n1 is smaller than that of  *)
(* n2 exactly when the throat whose invasion reached n1 has a smaller      *)
(* sequence number than the throat whose invasion reached n2.  A pore is   *)
(* reached by the throat invaded in the iteration that numbers the pore.   *)
(***************************************************************************)
C23_PoreOrderFollowsThroatOrder ==
    /\ [](Running =>
            \A n1, n2 \in NonInletInvaded :
                (p_inv[n1] < p_inv[n2])
                    <=> (t_inv[ReachedBy(n1)] < t_inv[ReachedBy(n2)]))
    /\ [][LoopStep =>
            \A n \in Pores :
                (p_inv[n] < 0 /\ p_inv'[n] >= 0)
                    => \E e \in IncidentThroats(n) :
                          /\ t_inv[e] < 0
                          /\ t_inv'[e] = tcount
                          /\ \A f \in IncidentThroats(n) : f # e => t_inv'[f] < 0]_vars

\* a finished run that reached two pores, the second through a throat that is
\* not the one invaded right after the first pore's throat
C23_Witness ==
    /\ pc = "done"
    /\ pcount >= 2
    /\ \E n1, n2 \in NonInletInvaded :
          /\ p_inv[n1] + 1 = p_inv[n2]
          /\ t_inv[ReachedBy(n1)] + 1 < t_inv[ReachedBy(n2)]

\* The end pores of throat e that are not invaded
UninvadedEnds(e) == {n \in {conns[e][1], conns[e][2]} : p_inv[n] < 0}

(***************************************************************************)
(* C24: counter semantics.  Every loop iteration invades one throat, gives *)
(* it the value tcount had before the iteration and then increments tcount *)
(* by one.  When the throat has an end pore that is not invaded, pcount is *)
(* incremented by one, once, and the new value is the number of the pores  *)
(* reached; when both end pores are invaded already, pcount and the pore   *)
(* numbers stay as they are.                                               *)
(***************************************************************************)
C24_CounterSemantics ==
    [][(pc = "loop" /\ pc' = "loop") =>
        \E e \in Throats :
            /\ t_inv[e] < 0
            /\ t_inv' = [t_inv EXCEPT ![e] = tcount]
            /\ tcount' = tcount + 1
            /\ IF UninvadedEnds(e) # {}
               THEN /\ pcount' = pcount + 1
                    /\ p_inv' = [n \in Pores |-> IF n \in UninvadedEnds(e)
                                                 THEN pcount + 1 ELSE p_inv[n]]
               ELSE /\ pcount' = pcount
                    /\ p_inv' = p_inv]_vars

\* iterations of both kinds have happened: two reached a pore each and a third
\* invaded a throat between invaded pores
C24_Witness ==
    /\ pc = "loop"
    /\ tcount = 3
    /\ pcount = 2
    /\ \E n \in Pores : p_inv[n] = 2

\* f is a permutation of 0..n-1
IsPermutation(f, n) ==
    /\ DOMAIN f = 0..(n - 1)
    /\ {f[i] : i \in DOMAIN f} = 0..(n - 1)

(***************************************************************************)
(* C25: rank bijection.  t_order (throat -> rank) and t_sorted (rank ->    *)
(* throat) are permutations of 0..Nt-1, inverse of each other; during the  *)
(* run they stay what the set-up made them; hence two equal ranks in the   *)
(* queue denote the same throat.                                           *)
(***************************************************************************)
C25_RankBijection ==
    Running =>
        /\ IsPermutation(t_sorted, Nt)
        /\ IsPermutation(t_order, Nt)
        /\ \A e \in Throats : t_sorted[t_order[e]] = e
        /\ \A r \in 0..(Nt - 1) : t_order[t_sorted[r]] = r
        /\ t_sorted = argsort
        /\ t_order = RankOrder(argsort, Nt)
        /\ \A i, j \in 1..Len(queue) :
              queue[i] = queue[j] => t_sorted[queue[i]] = t_sorted[queue[j]]
        /\ \A e1, e2 \in Throats : t_order[e1] = t_order[e2] => e1 = e2

\* after two iterations the queue holds a rank twice, on a network whose
\* throats are not ranked in the order of their ids
C25_Witness ==
    /\ pc = "loop"
    /\ tcount >= 2
    /\ \E e \in Throats : t_order[e] # e
    /\ \E e \in Throats : t_order[t_order[e]] # e
    /\ \E i, j \in 1..Len(queue) : i # j /\ queue[i] = queue[j]

\* The pores numbered k
PoresNumbered(k) == {n \in Pores : p_inv[n] = k}

(***************************************************************************)
(* C26: one invasion of a throat newly invades at most one pore: each      *)
(* increment of pcount numbers exactly one pore, the one recorded in       *)
(* p_seq, throats from a pore to itself and throats at the inlets          *)
(* included; so the invaded pores that are not inlets carry pairwise       *)
(* distinct sequence numbers.                                              *)
(***************************************************************************)
C26_OnePorePerInvasion ==
    Running =>
        /\ \A k \in 1..pcount : /\ Cardinality(PoresNumbered(k)) = 1
                                /\ k \in DOMAIN p_seq
                                /\ PoresNumbered(k) = {p_seq[k]}
        /\ \A n1, n2 \in NonInletInvaded : p_inv[n1] = p_inv[n2] => n1 = n2
        /\ \A n \in NonInletInvaded : p_inv[n] \in 1..pcount

\* a finished run that reached two pores and also invaded a throat from a
\* pore to itself and a throat between two inlets
C26_Witness ==
    /\ pc = "done"
    /\ pcount >= 1
    /\ \E e \in InvadedThroats : conns[e][1] = conns[e][2]
    /\ \E e \in InvadedThroats : conns[e][1] # conns[e][2]
                                 /\ conns[e][1] \in inlets
                                 /\ conns[e][2] \in inlets

(***************************************************************************)
(* C27: the queue is sorted in non-decreasing order in every state of run, *)
(* so its head is its minimum and the copies of the popped rank are next   *)
(* to each other at the head; after an iteration no copy of the rank it    *)
(* popped remains in the queue.                                            *)
(***************************************************************************)
C27_QueueSorted ==
    pc = "loop" =>
        /\ \A i, j \in 1..Len(queue) : i < j => queue[i] <= queue[j]
        /\ \A i \in 1..Len(queue) : Head(queue) <= queue[i]
        /\ tcount >= 1 =>
              /\ (tcount - 1) \in DOMAIN t_seq
              /\ t_seq[tcount - 1] \in Throats
              /\ t_order[t_seq[tcount - 1]] \notin QueuedRanks

\* after an iteration the queue holds three entries, two of them equal and
\* not at its head
C27_Witness ==
    /\ pc = "loop"
    /\ tcount >= 1
    /\ Len(queue) = 3
    /\ queue[1] < queue[2]
    /\ queue[2] = queue[3]

\* The end pore of throat e that is not n (n itself for a throat from n to n)
OtherEnd(e, n) == IF conns[e][1] = n THEN conns[e][2] ELSE conns[e][1]

\* e is an invaded throat of n whose other end pore was invaded before n, no
\* later than the iteration that numbered n
ParentThroat(e, n) ==
    /\ e \in IncidentThroats(n) \cap InvadedThroats
    /\ p_inv[OtherEnd(e, n)] >= 0
    /\ p_inv[OtherEnd(e, n)] < p_inv[n]
    /\ p_inv[n] <= t_inv[e] + 1

\* The pores joined to a pore of S by a chain of parent throats of at most k
\* links
RECURSIVE Descendants(_, _)
Descendants(S, k) ==
    IF k = 0 THEN S
    ELSE Descendants(S \cup {n \in Pores : \E e \in Throats :
                                 ParentThroat(e, n) /\ OtherEnd(e, n) \in S},
                     k - 1)

(***************************************************************************)
(* C28: every invaded pore n that is not an inlet has an invaded throat e  *)
(* whose other end pore has a strictly smaller sequence number than n,     *)
(* with p_inv[n] <= t_inv[e] + 1; following such throats from any invaded  *)
(* pore leads back to an inlet.                                            *)
(***************************************************************************)
C28_ParentThroat ==
    Running =>
        /\ \A n \in NonInletInvaded : \E e \in Throats : ParentThroat(e, n)
        /\ InvadedPores \subseteq Descendants(inlets, Np)

\* a pore was reached from a pore that is not an inlet, after an iteration
\* that reached no pore
C28_Witness ==
    /\ pc = "done"
    /\ \E n \in NonInletInvaded : \E e \in Throats :
          /\ ParentThroat(e, n)
          /\ OtherEnd(e, n) \notin inlets
          /\ p_inv[n] < t_inv[e] + 1

(***************************************************************************)
(* C29: when run ends, tcount is the number of throats with a sequence     *)
(* number >= 0 and pcount is the number of pores with a sequence number    *)
(* >= 0 that are not inlets; throughout the run, between the two           *)
(* increments of an iteration included, pcount <= tcount + 1.              *)
(***************************************************************************)
C29_CountersAtTermination ==
    /\ [](pc = "done" => /\ tcount = Cardinality(InvadedThroats)
                         /\ pcount = Cardinality(NonInletInvaded))
    /\ [](Running => pcount <= tcount + 1)
    /\ [][pc = "loop" => pcount' <= tcount + 1]_vars

\* a finished run in which pcount fell behind tcount, with a pore left
\* uninvaded
C29_Witness ==
    /\ pc = "done"
    /\ pcount >= 1
    /\ tcount >= pcount + 2
    /\ Cardinality(NonInletInvaded) < Np - Cardinality(inlets)

(***************************************************************************)
(* C30: every write into the replay arrays is in bounds.  At the write     *)
(* t_seq[tcount] the counter satisfies 0 <= tcount < Nt, and at the write  *)
(* p_seq[pcount] it satisfies 1 <= pcount < Np; each write stores one      *)
(* throat id, respectively one pore id.                                    *)
(***************************************************************************)
C30_ReplayWritesInBounds ==
    [][(pc = "loop" /\ pc' = "loop") =>
        /\ 0 <= tcount
        /\ tcount < Nt
        /\ \E e \in Throats : t_seq' = [t_seq EXCEPT ![tcount] = e]
        /\ pcount' # pcount =>
              /\ 1 <= pcount'
              /\ pcount' < Np
              /\ \E n \in Pores : /\ {m \in Pores : p_inv'[m] = pcount'} = {n}
                                  /\ p_seq' = [p_seq EXCEPT ![pcount'] = n]
        /\ pcount' = pcount => p_seq' = p_seq]_vars

\* a finished run that wrote the last cell of both replay arrays
C30_Witness ==
    /\ pc = "done"
    /\ Nt = 3
    /\ Np = 3
    /\ tcount = Nt
    /\ pcount = Np - 1
    /\ t_seq[Nt - 1] >= 0
    /\ p_seq[Np - 1] >= 0

(***************************************************************************)
(* The statements of one loop iteration, each as a function of the locals  *)
(* of run; t and t_next are the iteration's scratch variables.             *)
(***************************************************************************)
CurrentLocals ==
    [queue |-> queue, t |-> -1, t_next |-> -1, t_inv |-> t_inv, t_seq |-> t_seq,
     p_inv |-> p_inv, p_seq |-> p_seq, tcount |-> tcount, pcount |-> pcount]

\* line 75: t = queue.pop(0)
PopStep(s) == [s EXCEPT !.t = Head(s.queue), !.queue = Tail(s.queue)]

\* lines 76-78: t_next = t_sorted[t]; t_inv[t_next] = tcount;
\* t_seq[tcount] = t_next
MarkStep(s) ==
    LET e == ThroatAtRank(t_sorted, s.t) IN
    [s EXCEPT !.t_next = e, !.t_inv[e] = s.tcount, !.t_seq[s.tcount] = e]

\* Mutant of DiscardStep: the head of the queue is discarded while its throat
\* is invaded
RECURSIVE DiscardInvadedStep(_)
DiscardInvadedStep(s) ==
    IF Len(s.queue) > 0 /\ s.t_inv[ThroatAtRank(t_sorted, s.queue[1])] >= 0
    THEN DiscardInvadedStep(PopStep(s))
    ELSE s

\* lines 79-80: while len(queue) > 0 and queue[0] == t: t = queue.pop(0)
RECURSIVE DiscardStep(_)
DiscardStep(s) ==
    IF Len(s.queue) > 0 /\ s.queue[1] = s.t
    THEN DiscardStep(PopStep(s))
    ELSE s

\* lines 81-89: the pores reached through t_next and their throats
ReachStep(s) ==
    LET Ps == UninvadedPores(conns[s.t_next], s.p_inv)
        Ts == UninvadedThroats(find_neighbor_throats(
                                   {Ps[i] : i \in 1..Len(Ps)}), s.t_inv)
    IN  IF Len(Ps) > 0
        THEN [s EXCEPT !.pcount = NextPoreCount(s.pcount),
                       !.p_inv = Assign(s.p_inv, Ps, NextPoreCount(s.pcount)),
                       !.p_seq[NextPoreCount(s.pcount)] = Ps[1],
                       !.queue = InsortAll(s.queue, Take(t_order, Ts))]
        ELSE s

\* line 90: tcount += 1
CountStep(s) == [s EXCEPT !.tcount = s.tcount + 1]

\* The iteration in the order of the code, lines 75-90
CodeOrderIteration(s) ==
    CountStep(ReachStep(DiscardStep(MarkStep(PopStep(s)))))

\* The iteration in the order of steps 5a-5f: pop, discard the duplicates,
\* mark the throat and count it, then reach the pores
StepOrderIteration(s) ==
    ReachStep(CountStep(MarkStep(DiscardStep(PopStep(s)))))

\* What an iteration leaves: queue, counters and sequence arrays
IterationResult(s) ==
    <<s.queue, s.tcount, s.pcount, s.t_inv, s.t_seq, s.p_inv, s.p_seq>>

(***************************************************************************)
(* C31: marking the popped throat invaded and then discarding the          *)
(* duplicate ranks (the code's order) leaves the same queue, counters and  *)
(* sequence arrays at the end of every loop iteration as discarding the    *)
(* duplicates first and marking afterwards (the order of steps 5b, 5c),    *)
(* for every network and every set of inlets; the code's order is what an  *)
(* iteration of run does.                                                  *)
(***************************************************************************)
C31_StepOrderEquivalence ==
    /\ []((pc = "loop" /\ QueueNotEmpty(queue)) =>
            IterationResult(CodeOrderIteration(CurrentLocals))
                = IterationResult(StepOrderIteration(CurrentLocals)))
    /\ [][LoopStep =>
            IterationResult(CodeOrderIteration(CurrentLocals))
                = <<queue', tcount', pcount', t_inv', t_seq', p_inv', p_seq'>>]_vars

\* an iteration is about to pop a rank the queue holds twice, ahead of
\* another rank, after an iteration that reached a pore
C31_Witness ==
    /\ pc = "loop"
    /\ pcount >= 1
    /\ Len(queue) >= 3
    /\ queue[1] = queue[2]
    /\ queue[2] < queue[3]

====
